---- MODULE Spec2Model ----
(***************************************************************************)
(* Model of the bulk identity verifier of PROYECTO/main.go: the batch      *)
(* parser of handleConsultar, the launcher goroutine, the per-record       *)
(* worker goroutines with their retry loop, the permit channel `sem`, the  *)
(* WaitGroup, the unbuffered result channel and the consumer loop.         *)
(*                                                                         *)
(* Text is a sequence of one-character strings, so that TrimSpace, Split   *)
(* and EqualFold are computed character by character as the Go library     *)
(* computes them.                                                          *)
(***************************************************************************)
EXTENDS Integers, Sequences, FiniteSets, TLC

VARIABLES
    rawDnis,      \* lines of r.FormValue("dnis") as scannerDNI yields them
    rawNombres,   \* lines of r.FormValue("nombres") as scannerNames yields them
    scannerDNI,   \* number of identifier lines already scanned
    scannerNames, \* number of name lines already scanned
    idCounter,    \* next ID to assign
    initialRows,  \* the parsed rows
    total,        \* data["Total"] once the initial page is rendered, else -1
    registry,     \* the answers the external registry may give to a lookup
    launched,     \* number of rows the launcher loop has spawned a task for
    paced,        \* number of RequestDelay pauses the launcher has slept
    wg,           \* WaitGroup counter
    sem,          \* set of tasks holding a permit of the sem channel
    closed,       \* resultsChan is closed
    tasks,        \* per spawned goroutine: its position and its locals
    received,     \* per ID, how many records the consumer loop has written
    consumer,     \* "range" while the consumer loop runs, "done" after it
    crashed       \* an unrecovered panic in a goroutine has ended the process

vars == <<rawDnis, rawNombres, scannerDNI, scannerNames, idCounter, initialRows,
          total, registry, launched, paced, wg, sem, closed, tasks, received,
          consumer, crashed>>

parseVars == <<rawDnis, rawNombres, scannerDNI, scannerNames, idCounter,
               initialRows, total>>

runVars == <<registry, launched, paced, wg, sem, closed, tasks, received,
             consumer, crashed>>

(***************************************************************************)
(* Program constants.                                                      *)
(***************************************************************************)
MaxWorkers == 3
MaxRetries == 3

(***************************************************************************)
(* Bounds of the model.                                                    *)
(***************************************************************************)
\* number of records of the batches the concurrent specification runs
NumRecs == 4
\* longest identifier block and name block of the parser specification
MaxLines == 3

(***************************************************************************)
(* Text helpers.                                                           *)
(***************************************************************************)
Space == {" ", "\t"}

\* bytes below 0x20 that net/url rejects anywhere in a URL
CTLBytes == {"\t"}

RECURSIVE TrimLeft(_)
TrimLeft(s) ==
    IF s # <<>> /\ Head(s) \in Space THEN TrimLeft(Tail(s)) ELSE s

RECURSIVE TrimRight(_)
TrimRight(s) ==
    IF s # <<>> /\ s[Len(s)] \in Space
    THEN TrimRight(SubSeq(s, 1, Len(s) - 1))
    ELSE s

TrimSpace(s) == TrimRight(TrimLeft(s))

\* strings.Split(s, "\t"): always at least one part
RECURSIVE Split(_)
Split(s) ==
    IF \E i \in 1..Len(s) : s[i] = "\t"
    THEN LET i == CHOOSE j \in 1..Len(s) :
                      s[j] = "\t" /\ \A k \in 1..(j - 1) : s[k] # "\t"
         IN  <<SubSeq(s, 1, i - 1)>> \o Split(SubSeq(s, i + 1, Len(s)))
    ELSE <<s>>

\* unicode.SimpleFold orbit of a letter, by its lower-case representative
FoldOf(c) ==
    CASE c = "A" -> "a"
      [] c = "B" -> "b"
      [] c = "N" -> "n"
      [] OTHER   -> c

\* strings.EqualFold: rune by rune, equal under simple case folding, and
\* both strings exhausted together
RECURSIVE EqualFold(_, _)
EqualFold(s, t) ==
    IF s = <<>> \/ t = <<>>
    THEN s = t
    ELSE /\ (Head(s) = Head(t) \/ FoldOf(Head(s)) = FoldOf(Head(t)))
         /\ EqualFold(Tail(s), Tail(t))

(***************************************************************************)
(* Batch parsing (handleConsultar, the scanner loop).                      *)
(***************************************************************************)
\* the row literal with idCounter never advancing
ComparisonRowSameID(id, dni, nombreIn, patIn, matIn) ==
    [ID |-> 0, DNI |-> dni,
     NombreInput |-> nombreIn, PaternoInput |-> patIn, MaternoInput |-> matIn,
     NombreAPI |-> <<>>, PaternoAPI |-> <<>>, MaternoAPI |-> <<>>,
     MatchNombre |-> FALSE, MatchPaterno |-> FALSE, MatchMaterno |-> FALSE,
     HasError |-> FALSE, ErrorMessage |-> "", IsPending |-> TRUE]

ComparisonRow(id, dni, nombreIn, patIn, matIn) ==
    [ID |-> id, DNI |-> dni,
     NombreInput |-> nombreIn, PaternoInput |-> patIn, MaternoInput |-> matIn,
     NombreAPI |-> <<>>, PaternoAPI |-> <<>>, MaternoAPI |-> <<>>,
     MatchNombre |-> FALSE, MatchPaterno |-> FALSE, MatchMaterno |-> FALSE,
     HasError |-> FALSE, ErrorMessage |-> "", IsPending |-> TRUE]

\* the three input fields taken from one name line
NameFields(lineaNombre) ==
    LET parts == Split(lineaNombre)
    IN  <<IF Len(parts) >= 1 THEN TrimSpace(parts[1]) ELSE <<>>,
          IF Len(parts) >= 2 THEN TrimSpace(parts[2]) ELSE <<>>,
          IF Len(parts) >= 3 THEN TrimSpace(parts[3]) ELSE <<>>>>

\* the iteration skipping an identifier that has no name line left
ScanIterDropShort(dnis, nombres, st) ==
    LET dni == TrimSpace(dnis[st.scannerDNI + 1])
        hasName == st.scannerNames < Len(nombres)
        f == NameFields(IF hasName THEN nombres[st.scannerNames + 1] ELSE <<>>)
    IN  IF dni = <<>> \/ ~hasName
        THEN [st EXCEPT !.scannerDNI = @ + 1]
        ELSE [scannerDNI   |-> st.scannerDNI + 1,
              scannerNames |-> st.scannerNames + 1,
              idCounter    |-> st.idCounter + 1,
              initialRows  |-> Append(st.initialRows,
                                  ComparisonRow(st.idCounter, dni, f[1], f[2], f[3]))]

\* One iteration of `for scannerDNI.Scan()`, on the scanner positions, the
\* ID counter and the rows built so far.
ScanIter(dnis, nombres, st) ==
    LET dni == TrimSpace(dnis[st.scannerDNI + 1])
        hasName == st.scannerNames < Len(nombres)
        lineaNombre == IF hasName THEN nombres[st.scannerNames + 1] ELSE <<>>
        f == NameFields(lineaNombre)
    IN  IF dni = <<>>
        THEN [st EXCEPT !.scannerDNI = @ + 1]
        ELSE [scannerDNI   |-> st.scannerDNI + 1,
              scannerNames |-> IF hasName THEN st.scannerNames + 1
                                          ELSE st.scannerNames,
              idCounter    |-> st.idCounter + 1,
              initialRows  |-> Append(st.initialRows,
                                  ComparisonRow(st.idCounter, dni, f[1], f[2], f[3]))]

ScanStart ==
    [scannerDNI |-> 0, scannerNames |-> 0, idCounter |-> 0, initialRows |-> <<>>]

RECURSIVE ScanAll(_, _, _)
ScanAll(dnis, nombres, st) ==
    IF st.scannerDNI < Len(dnis)
    THEN ScanAll(dnis, nombres, ScanIter(dnis, nombres, st))
    ELSE st

ScanState ==
    [scannerDNI |-> scannerDNI, scannerNames |-> scannerNames,
     idCounter |-> idCounter, initialRows |-> initialRows]

\* the scanner loop takes one identifier line
ScanStep ==
    /\ total = -1
    /\ scannerDNI < Len(rawDnis)
    /\ LET st == ScanIter(rawDnis, rawNombres, ScanState)
       IN  /\ scannerDNI' = st.scannerDNI
           /\ scannerNames' = st.scannerNames
           /\ idCounter' = st.idCounter
           /\ initialRows' = st.initialRows
    /\ UNCHANGED <<rawDnis, rawNombres, total>>
    /\ UNCHANGED runVars

\* the identifier block is exhausted: the initial page is rendered with Total
Render ==
    /\ total = -1
    /\ scannerDNI = Len(rawDnis)
    /\ total' = Len(initialRows)
    /\ UNCHANGED <<rawDnis, rawNombres, scannerDNI, scannerNames, idCounter,
                   initialRows>>
    /\ UNCHANGED runVars

\* identifier lines and name lines the parser specification draws from
DniLines == { <<>>, <<" ">>, <<"7">>, <<" ", "8", "\t">> }

NameLines ==
    { <<>>,
      <<"a">>,
      <<" ", "a", "\t", "b">>,
      <<"a", "\t", "\t", "n", " ">>,
      <<"a", "\t", "b", "\t", "n", "\t", "x">> }

SeqsUpTo(S, n) == UNION { [1..k -> S] : k \in 0..n }

RunIdle ==
    /\ registry = {}
    /\ launched = 0
    /\ paced = 0
    /\ wg = 0
    /\ sem = {}
    /\ closed = FALSE
    /\ tasks = <<>>
    /\ received = <<>>
    /\ consumer = "range"
    /\ crashed = FALSE

InitParse ==
    /\ rawDnis \in SeqsUpTo(DniLines, MaxLines)
    /\ rawNombres \in SeqsUpTo(NameLines, MaxLines)
    /\ scannerDNI = 0
    /\ scannerNames = 0
    /\ idCounter = 0
    /\ initialRows = <<>>
    /\ total = -1
    /\ RunIdle

NextParse == ScanStep \/ Render

SpecParse == InitParse /\ [][NextParse]_vars

(***************************************************************************)
(* The external registry: what one client.Do plus io.ReadAll can yield.    *)
(***************************************************************************)
NoBody == [valid |-> FALSE, first_name |-> <<>>, first_last_name |-> <<>>,
           second_last_name |-> <<>>]

\* a body json.Unmarshal accepts, with its three name fields
Payload(a, b, c) ==
    [valid |-> TRUE, first_name |-> a, first_last_name |-> b,
     second_last_name |-> c]

NilResp == [StatusCode |-> 0, Body |-> NoBody]

\* client.Do returned (nil, err)
TransportError == [err |-> TRUE, resp |-> NilResp]

\* client.Do returned (resp, nil)
Answer(status, body) ==
    [err |-> FALSE, resp |-> [StatusCode |-> status, Body |-> body]]

(***************************************************************************)
(* One worker goroutine (the closure spawned per row).                     *)
(***************************************************************************)
\* fmt.Sprintf("HTTP %d", code)
HttpTag(code) == "HTTP " \o ToString(code)

\* url.Parse rejects a URL holding a control byte: NewRequest returns a nil
\* request, and req.Header.Set dereferences it
NewRequestFails(dni) == \E i \in 1..Len(dni) : dni[i] \in CTLBytes

\* the locals of a goroutine that has just been spawned with its row
NewTask(row) ==
    [pc |-> "acquire", r |-> row, attempt |-> 0, resp |-> NilResp,
     err |-> FALSE, success |-> FALSE, hist |-> <<>>, slept |-> 0]

\* the rate-limit backoff slept after a transport failure as well
BackoffEscalating(t) == 2 + t.attempt

\* time.Sleep argument of the retry loop, in seconds
Backoff(t) == IF t.err THEN 1 ELSE 2 + t.attempt

\* the comparison with == in place of strings.EqualFold
CompareExact(r, apiData) ==
    [r EXCEPT !.NombreAPI = apiData.first_name,
              !.PaternoAPI = apiData.first_last_name,
              !.MaternoAPI = apiData.second_last_name,
              !.MatchNombre = (r.NombreInput = apiData.first_name),
              !.MatchPaterno = (r.PaternoInput = apiData.first_last_name),
              !.MatchMaterno = (r.MaternoInput = apiData.second_last_name)]

\* the comparison of the three fields of a decoded answer
Compare(r, apiData) ==
    [r EXCEPT !.NombreAPI = apiData.first_name,
              !.PaternoAPI = apiData.first_last_name,
              !.MaternoAPI = apiData.second_last_name,
              !.MatchNombre = EqualFold(r.NombreInput, apiData.first_name),
              !.MatchPaterno = EqualFold(r.PaternoInput, apiData.first_last_name),
              !.MatchMaterno = EqualFold(r.MaternoInput, apiData.second_last_name)]

\* the failure branch without its HTTP status tag
FinishNetworkTag(t) ==
    LET r0 == [t.r EXCEPT !.IsPending = FALSE]
    IN  IF ~t.success \/ t.err
        THEN [r0 EXCEPT !.HasError = TRUE, !.ErrorMessage = "Error Red"]
        ELSE IF t.resp.StatusCode = 200
        THEN IF t.resp.Body.valid
             THEN Compare(r0, t.resp.Body)
             ELSE [r0 EXCEPT !.HasError = TRUE, !.ErrorMessage = "JSON Error"]
        ELSE [r0 EXCEPT !.HasError = TRUE,
                        !.ErrorMessage = HttpTag(t.resp.StatusCode)]

\* the decoded fields copied before the decoding error is looked at
FinishCopyFirst(t) ==
    LET r0 == [t.r EXCEPT !.IsPending = FALSE]
    IN  IF ~t.success \/ t.err
        THEN [r0 EXCEPT !.HasError = TRUE,
                        !.ErrorMessage =
                            IF ~t.err /\ t.resp # NilResp
                            THEN HttpTag(t.resp.StatusCode)
                            ELSE "Error Red"]
        ELSE IF t.resp.StatusCode = 200
        THEN IF t.resp.Body.valid
             THEN Compare(r0, t.resp.Body)
             ELSE [Compare(r0, t.resp.Body) EXCEPT !.HasError = TRUE]
        ELSE [r0 EXCEPT !.HasError = TRUE,
                        !.ErrorMessage = HttpTag(t.resp.StatusCode)]

\* the record after the retry loop, from the loop's success, err and resp
Finish(t) ==
    LET r0 == [t.r EXCEPT !.IsPending = FALSE]
    IN  IF ~t.success \/ t.err
        THEN [r0 EXCEPT !.HasError = TRUE,
                        !.ErrorMessage =
                            IF ~t.err /\ t.resp # NilResp
                            THEN HttpTag(t.resp.StatusCode)
                            ELSE "Error Red"]
        ELSE IF t.resp.StatusCode = 200
        THEN IF t.resp.Body.valid
             THEN Compare(r0, t.resp.Body)
             ELSE [r0 EXCEPT !.HasError = TRUE, !.ErrorMessage = "JSON Error"]
        ELSE [r0 EXCEPT !.HasError = TRUE,
                        !.ErrorMessage = HttpTag(t.resp.StatusCode)]

\* the goroutine leaves the retry loop: it builds its record and goes to
\* the send on resultsChan
Leave(t) == [t EXCEPT !.pc = "send", !.r = Finish(t)]

\* every status other than 200 retried like a 429
AfterDoRetryAll(t, o) ==
    LET t1 == [t EXCEPT !.resp = o.resp, !.err = o.err,
                        !.hist = Append(@, IF o.err THEN -1 ELSE o.resp.StatusCode)]
    IN  IF ~o.err /\ o.resp.StatusCode = 200
        THEN Leave([t1 EXCEPT !.success = TRUE])
        ELSE [t1 EXCEPT !.pc = "sleep"]

\* err kept from an earlier attempt (the result of client.Do assigned to a
\* shadowing err)
AfterDoKeepErr(t, o) ==
    LET t1 == [t EXCEPT !.resp = o.resp, !.err = t.err \/ o.err,
                        !.hist = Append(@, IF o.err THEN -1 ELSE o.resp.StatusCode)]
    IN  IF ~o.err /\ o.resp.StatusCode # 429
        THEN Leave([t1 EXCEPT !.success = TRUE])
        ELSE [t1 EXCEPT !.pc = "sleep"]

\* resp kept from the first attempt that was answered
AfterDoStaleResp(t, o) ==
    LET t1 == [t EXCEPT !.resp = IF t.resp # NilResp THEN t.resp ELSE o.resp,
                        !.err = o.err,
                        !.hist = Append(@, IF o.err THEN -1 ELSE o.resp.StatusCode)]
    IN  IF ~o.err /\ o.resp.StatusCode # 429
        THEN Leave([t1 EXCEPT !.success = TRUE])
        ELSE [t1 EXCEPT !.pc = "sleep"]

\* one pass of the loop body up to the sleep, the break or the panic
AfterDo(t, o) ==
    LET t1 == [t EXCEPT !.resp = o.resp, !.err = o.err,
                        !.hist = Append(@, IF o.err THEN -1 ELSE o.resp.StatusCode)]
    IN  IF ~o.err /\ o.resp.StatusCode # 429
        THEN Leave([t1 EXCEPT !.success = TRUE])
        ELSE [t1 EXCEPT !.pc = "sleep"]

\* the loop condition written attempt <= MaxRetries
AfterSleepOneMore(t) ==
    LET t1 == [t EXCEPT !.slept = @ + Backoff(t), !.attempt = @ + 1]
    IN  IF t1.attempt <= MaxRetries
        THEN [t1 EXCEPT !.pc = "attempt"]
        ELSE Leave(t1)

\* the sleep of the loop body ends: attempt++ and the loop condition
AfterSleep(t) ==
    LET t1 == [t EXCEPT !.slept = @ + Backoff(t), !.attempt = @ + 1]
    IN  IF t1.attempt < MaxRetries
        THEN [t1 EXCEPT !.pc = "attempt"]
        ELSE Leave(t1)

\* the goroutine without its deferred permit release
SentNoRelease(t) ==
    [NewTask([ComparisonRow(t.r.ID, <<>>, <<>>, <<>>, <<>>)
                 EXCEPT !.IsPending = FALSE])
        EXCEPT !.pc = "done"]

\* once its record is sent the goroutine reads its locals no more (only the
\* deferred permit release and wg.Done remain): the model keeps the ID and
\* the cleared IsPending flag of the record it handed over
Sent(t) ==
    [NewTask([ComparisonRow(t.r.ID, <<>>, <<>>, <<>>, <<>>)
                 EXCEPT !.IsPending = FALSE])
        EXCEPT !.pc = "release"]

Running == total # -1 /\ ~crashed

\* the loop walking initialRows from its end
NextRowLast == initialRows[Len(initialRows) - launched]

\* the row of the current iteration of `for _, row := range initialRows`
NextRow == initialRows[launched + 1]

\* the launcher loop has a row left; nothing else holds an iteration back
LoopReady == launched < Len(initialRows)

\* launcher: wg.Add(1), time.Sleep(RequestDelay), go func(row)
Launch ==
    /\ Running
    /\ LoopReady
    /\ launched' = launched + 1
    /\ wg' = wg + 1
    /\ paced' = paced + 1
    /\ tasks' = Append(tasks, NewTask(NextRow))
    /\ UNCHANGED <<registry, sem, closed, received, consumer, crashed>>
    /\ UNCHANGED parseVars

\* sem made without a capacity bound
PermitAlways == TRUE

\* the pool handing out no permit while one of its holders sleeps
PermitFreeNoSleeper ==
    /\ Cardinality(sem) < MaxWorkers
    /\ \A k \in sem : tasks[k].pc # "sleep"

\* a send on sem, a channel of capacity MaxWorkers, can proceed
PermitFree == Cardinality(sem) < MaxWorkers

\* sem <- struct{}{}
Acquire(k) ==
    /\ Running
    /\ tasks[k].pc = "acquire"
    /\ PermitFree
    /\ sem' = sem \cup {k}
    /\ tasks' = [tasks EXCEPT ![k].pc = "attempt"]
    /\ UNCHANGED <<registry, launched, paced, wg, closed, received, consumer, crashed>>
    /\ UNCHANGED parseVars

\* NewRequest, Header.Set, client.Do and the branch on its result
Attempt(k) ==
    /\ Running
    /\ tasks[k].pc = "attempt"
    /\ IF NewRequestFails(tasks[k].r.DNI)
       THEN /\ crashed' = TRUE
            /\ UNCHANGED tasks
       ELSE /\ \E o \in registry : tasks' = [tasks EXCEPT ![k] = AfterDo(@, o)]
            /\ UNCHANGED crashed
    /\ UNCHANGED <<registry, launched, paced, wg, sem, closed, received, consumer>>
    /\ UNCHANGED parseVars

\* the backoff sleep of the retry loop returns
Wake(k) ==
    /\ Running
    /\ tasks[k].pc = "sleep"
    /\ tasks' = [tasks EXCEPT ![k] = AfterSleep(@)]
    /\ UNCHANGED <<registry, launched, paced, wg, sem, closed, received, consumer, crashed>>
    /\ UNCHANGED parseVars

\* resultsChan <- r meets the consumer's receive (the channel is unbuffered);
\* the consumer writes the row update for res.ID. A send on the closed
\* channel panics.
Deliver(k) ==
    /\ Running
    /\ tasks[k].pc = "send"
    /\ IF closed
       THEN /\ crashed' = TRUE
            /\ UNCHANGED <<tasks, received>>
       ELSE /\ consumer = "range"
            /\ received' = [received EXCEPT ![tasks[k].r.ID] = @ + 1]
            /\ tasks' = [tasks EXCEPT ![k] = Sent(@)]
            /\ UNCHANGED crashed
    /\ UNCHANGED <<registry, launched, paced, wg, sem, closed, consumer>>
    /\ UNCHANGED parseVars

\* deferred <-sem
Release(k) ==
    /\ Running
    /\ tasks[k].pc = "release"
    /\ sem' = sem \ {k}
    /\ tasks' = [tasks EXCEPT ![k].pc = "done"]
    /\ UNCHANGED <<registry, launched, paced, wg, closed, received, consumer, crashed>>
    /\ UNCHANGED parseVars

\* deferred wg.Done()
Done(k) ==
    /\ Running
    /\ tasks[k].pc = "done"
    /\ wg' = wg - 1
    /\ tasks' = [tasks EXCEPT ![k].pc = "exit"]
    /\ UNCHANGED <<registry, launched, paced, sem, closed, received, consumer, crashed>>
    /\ UNCHANGED parseVars

\* close(resultsChan) without the wg.Wait() before it
WaitSkipped == TRUE

\* wg.Wait() returns once the counter is zero
WaitReturns == wg = 0

\* launcher after its loop: wg.Wait() returns, close(resultsChan)
WaitClose ==
    /\ Running
    /\ launched = Len(initialRows)
    /\ WaitReturns
    /\ ~closed
    /\ closed' = TRUE
    /\ UNCHANGED <<registry, launched, paced, wg, sem, tasks, received, consumer, crashed>>
    /\ UNCHANGED parseVars

\* the consumer's range loop sees the close and the handler returns
ConsumerExit ==
    /\ Running
    /\ consumer = "range"
    /\ closed
    /\ consumer' = "done"
    /\ UNCHANGED <<registry, launched, paced, wg, sem, closed, tasks, received, crashed>>
    /\ UNCHANGED parseVars

Next ==
    \/ Launch
    \/ \E k \in DOMAIN tasks : Acquire(k)
    \/ \E k \in DOMAIN tasks : Attempt(k)
    \/ \E k \in DOMAIN tasks : Wake(k)
    \/ \E k \in DOMAIN tasks : Deliver(k)
    \/ \E k \in DOMAIN tasks : Release(k)
    \/ \E k \in DOMAIN tasks : Done(k)
    \/ WaitClose
    \/ ConsumerExit

(***************************************************************************)
(* Initial states: the handler has parsed a batch and rendered the page.   *)
(***************************************************************************)
\* the state at the start of the background processing of a parsed batch
Parsed(dnis, nombres, answers) ==
    LET st == ScanAll(dnis, nombres, ScanStart)
    IN  /\ rawDnis = dnis
        /\ rawNombres = nombres
        /\ scannerDNI = st.scannerDNI
        /\ scannerNames = st.scannerNames
        /\ idCounter = st.idCounter
        /\ initialRows = st.initialRows
        /\ total = Len(st.initialRows)
        /\ registry = answers
        /\ launched = 0
        /\ paced = 0
        /\ wg = 0
        /\ sem = {}
        /\ closed = FALSE
        /\ tasks = <<>>
        /\ received = [i \in 0..(Len(st.initialRows) - 1) |-> 0]
        /\ consumer = "range"
        /\ crashed = FALSE

GoodKey == <<"7">>
BadKey == <<"7", "\t", "8">>
NameLine == <<"a", "\t", "b", "\t", "n">>

AnaBody == Payload(<<"A">>, <<"b">>, <<>>)

\* the registries of the concurrent specification: in a run every lookup
\* ends in one of the two answers of the registry
Profiles ==
    { {TransportError, Answer(200, AnaBody)},
      {Answer(429, NoBody), Answer(404, NoBody)},
      {TransportError, Answer(200, NoBody)} }

\* batches of 0..NumRecs well-formed keys, and one that holds a key with a tab
Batches ==
    { [k \in 1..n |-> GoodKey] : n \in 0..NumRecs }
    \cup { [k \in 1..NumRecs |-> IF k = 2 THEN BadKey ELSE GoodKey] }

Init ==
    \E dnis \in Batches, answers \in Profiles :
        Parsed(dnis, [k \in 1..Len(dnis) |-> NameLine], answers)

Spec == Init /\ [][Next]_vars

(***************************************************************************)
(* One record against every answer of the registry.                        *)
(***************************************************************************)
InputNames == { <<>>, <<"a">>, <<"A", "n">>, <<"b", "n">> }

ApiNames == { <<>>, <<"A">>, <<"a", "N">>, <<"a">>, <<"a", " ">> }

AllAnswers ==
    {TransportError, Answer(429, NoBody), Answer(404, NoBody),
     Answer(500, NoBody), Answer(200, NoBody)}
    \cup { Answer(200, Payload(a, b, c)) : a \in ApiNames, b \in ApiNames, c \in ApiNames }

InitRecord ==
    \E dni \in {GoodKey, BadKey}, a \in InputNames, b \in InputNames, c \in InputNames :
        Parsed(<<dni>>, <<a \o <<"\t">> \o b \o <<"\t">> \o c>>, AllAnswers)

SpecRecord == InitRecord /\ [][Next]_vars

(***************************************************************************)
(* Properties.                                                             *)
(***************************************************************************)
IDs == 0..(Len(initialRows) - 1)

\* the goroutines between their permit acquisition and their permit release
Holders == { k \in DOMAIN tasks : tasks[k].pc \in {"attempt", "sleep", "send", "release"} }

\* the goroutines whose record is final and on its way into resultsChan
Emitting == { k \in DOMAIN tasks : tasks[k].pc = "send" }

Only(h, outcome) == h # <<>> /\ \A i \in 1..Len(h) : h[i] = outcome

RECURSIVE SumBackoff(_)
\* (2+0) + (2+1) + ... + (2+k)
SumBackoff(k) == IF k < 0 THEN 0 ELSE (2 + k) + SumBackoff(k - 1)

Lower(s) == [i \in 1..Len(s) |-> FoldOf(s[i])]

CaseInsensitiveEqual(s, t) == Lower(s) = Lower(t)

\* C1: the consumer never receives an ID twice, and when resultsChan is
\* closed it has received every ID 0..n-1 of the parsed batch exactly once.
C1_EveryIdExactlyOnce ==
    /\ DOMAIN received = IDs
    /\ \A i \in IDs : received[i] <= 1
    /\ closed => \A i \in IDs : received[i] = 1

C1_Witness ==
    /\ closed
    /\ consumer = "done"
    /\ Len(initialRows) = NumRecs
    /\ \A i \in IDs : received[i] = 1

\* C2: at most MaxWorkers goroutines are between permit acquisition and
\* permit release, also for a batch larger than MaxWorkers.
C2_AtMostWPermits ==
    /\ Holders = sem
    /\ Cardinality(Holders) <= MaxWorkers

C2_Witness ==
    /\ Len(initialRows) > MaxWorkers
    /\ launched = Len(initialRows)
    /\ Cardinality(Holders) = MaxWorkers
    /\ \E k \in DOMAIN tasks : tasks[k].pc = "acquire"
    /\ \E k \in DOMAIN tasks : tasks[k].pc = "attempt" /\ tasks[k].hist # <<>>

\* C3: resultsChan is closed only when every row has been launched and every
\* goroutine has built a final record, had it received and exited (so no send
\* can follow the close); no record on its way into the channel is pending.
C3_CloseAfterAll ==
    /\ closed =>
          /\ launched = Len(initialRows)
          /\ Len(tasks) = Len(initialRows)
          /\ \A k \in DOMAIN tasks : tasks[k].pc = "exit" /\ ~tasks[k].r.IsPending
          /\ \A i \in IDs : received[i] = 1
          /\ ~crashed
    /\ \A k \in Emitting : ~tasks[k].r.IsPending

C3_Witness ==
    /\ closed
    /\ Len(initialRows) = NumRecs
    /\ \A k \in DOMAIN tasks : tasks[k].pc = "exit"

\* C4: a started batch never stalls: in every state the handler has returned
\* after the close of resultsChan, or the launcher, a goroutine or the
\* consumer can take a step.
C4_NeverStalls == consumer = "done" \/ ENABLED Next

\* C5: a record answered 429 on every attempt has made exactly MaxRetries
\* attempts when it is emitted, and is emitted failed with the tag of status
\* 429, which is not the network-error tag.
C5_RateLimitExhausted ==
    \A k \in Emitting :
        Only(tasks[k].hist, 429) =>
            /\ Len(tasks[k].hist) = MaxRetries
            /\ tasks[k].r.HasError
            /\ ~tasks[k].r.IsPending
            /\ tasks[k].r.ErrorMessage = "HTTP 429"
            /\ tasks[k].r.ErrorMessage # "Error Red"

C5_Witness ==
    \E k \in Emitting : tasks[k].hist = <<429, 429, 429>> /\ tasks[k].r.HasError

\* C6: a record answered 429 on every attempt has slept
\* (2+0) + ... + (2 + MaxRetries-2) seconds of backoff when it is emitted.
C6_BackoffSum ==
    \A k \in Emitting :
        Only(tasks[k].hist, 429) => tasks[k].slept = SumBackoff(MaxRetries - 2)

\* in every state: the lookups made for a record are at most MaxRetries, at
\* least one once it is emitted, and the record is pending exactly while its
\* goroutine is before the end of the retry loop
C7_Shape ==
    \A k \in DOMAIN tasks :
        /\ Len(tasks[k].hist) <= MaxRetries
        /\ tasks[k].attempt <= MaxRetries
        /\ tasks[k].pc = "send" => Len(tasks[k].hist) >= 1
        /\ tasks[k].r.IsPending <=> tasks[k].pc \in {"acquire", "attempt", "sleep"}
        /\ tasks[k].r.IsPending => ~tasks[k].r.HasError

\* in every step: a final record stays final, its goroutine never returns to
\* the retry loop, and from the send it only moves on to the permit release
C7_Step ==
    \A k \in DOMAIN tasks :
        ~tasks[k].r.IsPending =>
            /\ ~tasks'[k].r.IsPending
            /\ tasks'[k].pc \notin {"acquire", "attempt", "sleep"}
            /\ tasks[k].pc = "send" =>
                  \/ tasks'[k] = tasks[k]
                  \/ tasks'[k].pc = "release"

\* C7: a record is looked up at least once and at most MaxRetries times,
\* whatever mixture of 429 answers and transport failures it meets; it leaves
\* the pending state exactly once, and once it is final it stays final and
\* no further lookup is made for it.
C7_AttemptBudget == []C7_Shape /\ [][C7_Step]_vars

C7_Witness ==
    \E k \in Emitting : tasks[k].hist = <<429, -1, 429>> /\ tasks[k].r.HasError

\* C8: a record emitted without error carries the three fields of the decoded
\* body, and each match flag is true exactly when its input field equals its
\* authoritative field once both are lower-cased.
C8_MatchFlags ==
    \A k \in Emitting :
        LET r == tasks[k].r
            b == tasks[k].resp.Body
        IN  ~r.HasError =>
                /\ tasks[k].resp.StatusCode = 200 /\ b.valid
                /\ r.NombreAPI = b.first_name
                /\ r.PaternoAPI = b.first_last_name
                /\ r.MaternoAPI = b.second_last_name
                /\ r.MatchNombre = CaseInsensitiveEqual(r.NombreInput, r.NombreAPI)
                /\ r.MatchPaterno = CaseInsensitiveEqual(r.PaternoInput, r.PaternoAPI)
                /\ r.MatchMaterno = CaseInsensitiveEqual(r.MaternoInput, r.MaternoAPI)

C8_Witness ==
    \E k \in Emitting :
        LET r == tasks[k].r
        IN  /\ ~r.HasError
            /\ r.NombreInput # r.NombreAPI /\ r.MatchNombre
            /\ r.PaternoInput # <<>> /\ r.MatchPaterno
            /\ r.MaternoInput = <<>> /\ r.MaternoAPI # <<>> /\ ~r.MatchMaterno

\* the number of non-blank identifier lines before line p
RECURSIVE RowsBefore(_)
RowsBefore(p) ==
    IF p <= 1 THEN 0
    ELSE RowsBefore(p - 1) + (IF TrimSpace(rawDnis[p - 1]) = <<>> THEN 0 ELSE 1)

\* C9: once the batch is parsed, the row of the non-blank identifier line at
\* position p has the input fields of the name line at position p (empty
\* fields when the name block has no line p).
C9_PositionalAlignment ==
    total # -1 =>
        \A p \in 1..Len(rawDnis) :
            TrimSpace(rawDnis[p]) # <<>> =>
                LET row == initialRows[RowsBefore(p) + 1]
                    f == NameFields(IF p <= Len(rawNombres) THEN rawNombres[p] ELSE <<>>)
                IN  <<row.NombreInput, row.PaternoInput, row.MaternoInput>> = f

\* C10: a record whose every attempt fails in transport has slept one second
\* per failed attempt whenever it retries, has made exactly MaxRetries
\* attempts when it is emitted, and is emitted failed with the tag
\* "Error Red", no authoritative field and no match flag.
C10_TransportExhausted ==
    \A k \in DOMAIN tasks :
        Only(tasks[k].hist, -1) =>
            /\ tasks[k].pc = "attempt" => tasks[k].slept = Len(tasks[k].hist)
            /\ tasks[k].pc = "send" =>
                  /\ Len(tasks[k].hist) = MaxRetries
                  /\ tasks[k].r.HasError
                  /\ tasks[k].r.ErrorMessage = "Error Red"
                  /\ tasks[k].r.NombreAPI = <<>>
                  /\ tasks[k].r.PaternoAPI = <<>>
                  /\ tasks[k].r.MaternoAPI = <<>>
                  /\ ~tasks[k].r.MatchNombre
                  /\ ~tasks[k].r.MatchPaterno
                  /\ ~tasks[k].r.MatchMaterno

C10_Witness ==
    \E k \in Emitting :
        /\ tasks[k].hist = <<-1, -1, -1>>
        /\ tasks[k].r.ErrorMessage = "Error Red"
        /\ tasks[k].r.NombreInput # <<>>

\* the outcome of the last lookup made for a record
LastOutcome(t) == t.hist[Len(t.hist)]

RECURSIVE SleptBefore(_, _)
\* the backoff the retry loop sleeps after the first n lookups of history h
SleptBefore(h, n) ==
    IF n = 0 THEN 0
    ELSE SleptBefore(h, n - 1) + (IF h[n] = -1 THEN 1 ELSE 2 + (n - 1))

\* C11: a record whose last answer is a status other than 200 and 429 is
\* emitted failed with the tag of that status, on whichever attempt the
\* answer came: the loop counter is still the index of that attempt and no
\* backoff beyond those of the earlier attempts has been slept.
C11_OtherStatusFailsAtOnce ==
    \A k \in Emitting :
        LET t == tasks[k]
        IN  LastOutcome(t) \notin {-1, 200, 429} =>
                /\ t.r.HasError
                /\ ~t.r.IsPending
                /\ t.r.ErrorMessage = HttpTag(LastOutcome(t))
                /\ LastOutcome(t) = 404 => t.r.ErrorMessage = "HTTP 404"
                /\ LastOutcome(t) = 500 => t.r.ErrorMessage = "HTTP 500"
                /\ t.attempt = Len(t.hist) - 1
                /\ t.slept = SleptBefore(t.hist, Len(t.hist) - 1)

C11_Witness ==
    \E k \in Emitting :
        /\ tasks[k].hist = <<429, -1, 500>>
        /\ tasks[k].r.ErrorMessage = "HTTP 500"
        /\ tasks[k].slept = 3

\* C12: every emitted record has a tag exactly when it has the error flag,
\* and a record with the error flag has no authoritative field and no match
\* flag; a 200 answer with a malformed body is emitted with "JSON Error".
C12_ErrorShape ==
    \A k \in Emitting :
        LET t == tasks[k]
            r == t.r
        IN  /\ r.HasError <=> r.ErrorMessage # ""
            /\ r.HasError =>
                  /\ r.NombreAPI = <<>> /\ r.PaternoAPI = <<>> /\ r.MaternoAPI = <<>>
                  /\ ~r.MatchNombre /\ ~r.MatchPaterno /\ ~r.MatchMaterno
            /\ (LastOutcome(t) = 200 /\ ~t.resp.Body.valid) =>
                  r.HasError /\ r.ErrorMessage = "JSON Error"

C12_Witness ==
    \E k \in Emitting :
        /\ LastOutcome(tasks[k]) = 200
        /\ ~tasks[k].resp.Body.valid
        /\ tasks[k].r.ErrorMessage = "JSON Error"
        /\ tasks[k].r.NombreInput # <<>>

\* the goroutine has issued the first lookup of its record
Started(k) ==
    /\ tasks[k].pc # "acquire"
    /\ ~(tasks[k].pc = "attempt" /\ tasks[k].hist = <<>>)

\* the goroutine spawned for the row at position p of initialRows, if any
TaskOf(p) == { k \in DOMAIN tasks : tasks[k].r.ID = initialRows[p].ID }

\* C13 as stated: of two rows i < j, the goroutine of j is spawned only after
\* the goroutine of i, and the first lookup of j is issued only after the
\* first lookup of i.
C13_LaunchAndLookupOrder ==
    \A i, j \in DOMAIN initialRows :
        i < j =>
            /\ TaskOf(j) # {} => TaskOf(i) # {}
            /\ (\E k \in TaskOf(j) : Started(k)) => (\E k \in TaskOf(i) : Started(k))

\* C13 amended: the goroutines are spawned in parse order: the goroutines
\* that exist are those of the first `launched` rows, one per row, in order.
C13_LaunchOrder ==
    /\ Len(tasks) = launched
    /\ launched <= Len(initialRows)
    /\ \A k \in DOMAIN tasks :
          /\ tasks[k].r.ID = initialRows[k].ID
          /\ tasks[k].r.ID = k - 1

C13_Witness ==
    /\ Len(initialRows) = NumRecs
    /\ launched = 2
    /\ tasks[1].pc = "acquire"
    /\ Started(2)

\* C14: while a row is left the launcher can take its next iteration (pacing
\* sleep, then spawn), however many permits are taken and whatever the
\* consumer has received; and it has slept one pacing delay per spawned row.
C14_LauncherNeverWaits ==
    /\ paced = launched
    /\ launched < Len(initialRows) => ENABLED Launch

\* in every step: a goroutine leaves the send on resultsChan only by the
\* consumer receiving its record
C15_Step ==
    \A k \in DOMAIN tasks :
        (tasks[k].pc = "send" /\ tasks'[k].pc # "send") =>
            /\ tasks'[k].pc = "release"
            /\ received'[tasks[k].r.ID] = received[tasks[k].r.ID] + 1

\* C15: at most MaxWorkers records are final and not yet received, also for
\* a batch larger than MaxWorkers whose records the consumer has not begun
\* to receive; a goroutine with a final record stays at its send until the
\* consumer receives the record.
C15_Backpressure ==
    /\ [](Cardinality(Emitting) <= MaxWorkers /\ Emitting \subseteq sem)
    /\ [][C15_Step]_vars

C15_Witness ==
    /\ Len(initialRows) > MaxWorkers
    /\ launched = Len(initialRows)
    /\ Cardinality(Emitting) = MaxWorkers
    /\ \A i \in IDs : received[i] = 0
    /\ \E k \in DOMAIN tasks : tasks[k].pc = "acquire"

\* the goroutines in a backoff sleep of the retry loop
Sleeping == { k \in DOMAIN tasks : tasks[k].pc = "sleep" }

\* C16 as stated, in the states of the live process: while a goroutine
\* sleeps in a backoff, every other goroutine that waits for a permit, is
\* about to look up or is about to emit can take that step.
C16_SleepBlocksNobody ==
    ~crashed =>
        \A s \in Sleeping : \A k \in DOMAIN tasks \ {s} :
            /\ tasks[k].pc = "acquire" => ENABLED Acquire(k)
            /\ tasks[k].pc = "attempt" => ENABLED Attempt(k)
            /\ tasks[k].pc = "send" => ENABLED Deliver(k)

\* C16 amended: while a goroutine sleeps in a backoff, every other goroutine
\* that holds a permit and is about to look up or to emit can take that step
\* whenever any step of the process is possible at all; a goroutine that
\* waits for a permit can take one exactly when, in addition, fewer than
\* MaxWorkers goroutines hold a permit, sleepers counted.
C16_SleepKeepsOnlyItsPermit ==
    \A s \in Sleeping : \A k \in DOMAIN tasks \ {s} :
        /\ tasks[k].pc = "attempt" => (ENABLED Attempt(k) <=> ENABLED Next)
        /\ tasks[k].pc = "send" => (ENABLED Deliver(k) <=> ENABLED Next)
        /\ tasks[k].pc = "acquire" =>
              (ENABLED Acquire(k) <=>
                  (ENABLED Next /\ Cardinality(Holders) < MaxWorkers))

C16_Witness ==
    /\ Cardinality(Sleeping) = MaxWorkers
    /\ \E k \in DOMAIN tasks : tasks[k].pc = "acquire" /\ ~ENABLED Acquire(k)
    /\ ENABLED Next

RECURSIVE ReceivedUpTo(_)
\* the number of records the consumer has received with an ID below n
ReceivedUpTo(n) == IF n <= 0 THEN 0 ELSE ReceivedUpTo(n - 1) + received[n - 1]

\* the goroutines that have released their permit
Released == { k \in DOMAIN tasks : tasks[k].pc \in {"done", "exit"} }

\* in every state: a goroutine holds a permit from its acquisition until
\* after its record is received, and holds none afterwards
C17_Shape ==
    /\ \A k \in DOMAIN tasks :
          LET got == received[tasks[k].r.ID]
          IN  /\ tasks[k].pc = "acquire" => k \notin sem /\ got = 0
              /\ tasks[k].pc \in {"attempt", "sleep", "send"} => k \in sem /\ got = 0
              /\ tasks[k].pc = "release" => k \in sem /\ got = 1
              /\ k \in Released => k \notin sem /\ got = 1
    /\ Cardinality(Released) <= ReceivedUpTo(Len(initialRows))
    /\ closed => sem = {} /\ Cardinality(Released) = Len(initialRows)

\* in every step: a permit is given back only by a goroutine whose record
\* has been received, one permit at a time, and a goroutine that has given
\* its permit back takes no other
C17_Step ==
    /\ Cardinality(sem \ sem') <= 1
    /\ \A k \in sem \ sem' :
          /\ tasks[k].pc = "release"
          /\ received[tasks[k].r.ID] = 1
          /\ k \in Released'
    /\ \A k \in Released : k \in Released' /\ k \notin sem'

\* C17: every goroutine gives back one permit, once, whichever way its
\* record became final, and only after the consumer has received the
\* record; the permits given back never outnumber the records received, and
\* when resultsChan is closed every permit is free.
C17_PermitReleasedOnce == []C17_Shape /\ [][C17_Step]_vars

C17_Witness ==
    /\ Len(initialRows) > MaxWorkers
    /\ \E k \in DOMAIN tasks : tasks[k].pc = "release" /\ k \in sem
    /\ \E k \in Released : tasks[k].pc = "exit"
    /\ \E k \in Emitting : tasks[k].r.ErrorMessage = "JSON Error"
    /\ Cardinality(Released) < ReceivedUpTo(Len(initialRows))

IsNonBlank(line) == TrimSpace(line) # <<>>

\* the non-blank identifier lines among the first n, in order
NonBlankDnis(n) == SelectSeq(SubSeq(rawDnis, 1, n), IsNonBlank)

Tabs(line) == Cardinality({ i \in 1..Len(line) : line[i] = "\t" })

Retryable(h) == \A i \in 1..Len(h) : h[i] \in {-1, 429}

\* C19: a record that has used up its MaxRetries attempts on rate-limited
\* answers and transport failures is emitted failed with the tag of its last
\* attempt: "Error Red" after a transport failure, "HTTP 429" after a 429,
\* whatever the earlier attempts met.
C19_TagOfLastAttempt ==
    \A k \in Emitting :
        LET t == tasks[k]
        IN  (Len(t.hist) = MaxRetries /\ Retryable(t.hist)) =>
                /\ t.r.HasError
                /\ LastOutcome(t) = -1 => t.r.ErrorMessage = "Error Red"
                /\ LastOutcome(t) = 429 => t.r.ErrorMessage = "HTTP 429"

C19_Witness ==
    /\ \E k \in Emitting :
          tasks[k].hist = <<-1, -1, 429>> /\ tasks[k].r.ErrorMessage = "HTTP 429"

\* C20: a record whose lookups were rate-limited or failed in transport j
\* times (j < MaxRetries) and were then answered 200 is emitted after exactly
\* j+1 lookups holding that last response and no transport error; when the
\* body of that response is well-formed the record is resolved from it, with
\* no error flag and no tag.
C20_RetriesRecover ==
    \A k \in Emitting :
        LET t == tasks[k]
            j == Len(t.hist) - 1
        IN  (LastOutcome(t) = 200 /\ Retryable(SubSeq(t.hist, 1, j))) =>
                /\ j < MaxRetries
                /\ t.attempt = j
                /\ ~t.err
                /\ t.success
                /\ t.resp.StatusCode = 200
                /\ ~t.r.IsPending
                /\ t.resp.Body.valid =>
                      /\ ~t.r.HasError
                      /\ t.r.ErrorMessage = ""
                      /\ t.r.NombreAPI = t.resp.Body.first_name
                      /\ t.r.PaternoAPI = t.resp.Body.first_last_name
                      /\ t.r.MaternoAPI = t.resp.Body.second_last_name

C20_Witness ==
    \E k \in Emitting :
        /\ tasks[k].hist = <<429, -1, 200>>
        /\ ~tasks[k].r.HasError
        /\ tasks[k].r.NombreAPI # <<>>
        /\ tasks[k].r.MatchNombre

====
